---- MODULE Spec2Model ----
(***************************************************************************)
(* Model of the region allocator of src/src/region.c (with region.h).      *)
(*                                                                         *)
(* The region is a block of bytes addressed by offset.  mem maps the       *)
(* offset of every 8-byte word that is not zero to its value (a word that  *)
(* is absent reads as 0, the block being zeroed before region_init).       *)
(* Every access of region.c is a whole aligned word except the bitmap      *)
(* bytes, which are taken out of their word by arithmetic (little endian,  *)
(* as on the hosts alloc.c runs on).  The 16 name bytes of a cache are     *)
(* written once by cache_init and never read: they are left out of mem.    *)
(* size_t values are kept as integers, -1 standing for 2^64-1 after a      *)
(* decrement of 0; such values are only ever compared for equality.        *)
(***************************************************************************)
EXTENDS Integers, Sequences, FiniteSets, TLC

(* ---------------- program constants ---------------- *)

PAGE_SIZE == 4096
SmallObjectMax == 256
NumAllocCaches == 6
CacheSlots == 20
SizeofCache == 88
SizeofSlab == 56
WordSize == 8

(* offsetof(struct region, ...) *)
OFF_size == 0
OFF_pages == 8
OFF_free_page == 16
OFF_heap_bits == 24
OFF_heap_size == 32
OFF_caches_bits == 40
OFF_caches_size == 48
OFF_caches_count == 56
OFF_cache == 64
SizeofRegion == OFF_cache + CacheSlots * SizeofCache

(* offsetof(struct cache, ...) *)
C_full_list == 16
C_full_count == 24
C_partial_list == 32
C_partial_count == 40
C_free_list == 48
C_free_count == 56
C_object_size == 64
C_aligned_size == 72
C_object_count == 80

(* offsetof(struct slab, ...) *)
S_page_next == 0
S_cache == 8
S_list == 16
S_next == 24
S_objects == 32
S_free_list == 40
S_free_count == 48

(* ---------------- bounds of the model ---------------- *)

\* pages of the larger of the two regions the caller maps (alloc.c maps 20)
RegionPages == 20
\* public calls made after region_init
MaxOps == 5

\* pages of the largest block region_init is called on when the layout of the
\* bitmaps is checked
MaxLayoutPages == 2056

\* words an out-of-bounds read (or a missing return value) may deliver
GarbageWords == {0, 8}

(* ---------------- words, bytes and bits ---------------- *)

Pow2(n) == 2 ^ n

\* mem values stay below 2^30 in every reachable state (TypeOK)
Rd(m, o) == IF o \in DOMAIN m THEN m[o] ELSE 0

Wr(m, o, v) ==
  IF v = 0
    THEN IF o \in DOMAIN m THEN [x \in (DOMAIN m) \ {o} |-> m[x]] ELSE m
    ELSE IF o \in DOMAIN m THEN [m EXCEPT ![o] = v] ELSE m @@ (o :> v)

\* the writes of w (offset -> value) applied to m
WrMany(m, w) ==
  LET val(x) == IF x \in DOMAIN w THEN w[x] ELSE m[x]
  IN [x \in {y \in (DOMAIN m) \cup (DOMAIN w) : val(y) # 0} |-> val(x)]

\* region.h: an offset as an address of the process that mapped the block at r
swizzle(r, object) == r + object
unswizzle(r, pointer) == pointer - r

\* the word the address p points at (the block is mapped at r)
Load(m, r, p) == Rd(m, p - r)
Store(m, r, p, v) == Wr(m, p - r, v)
\* *p += d (count++, count--) and *dst = *src
Inc(m, r, p, d) == Store(m, r, p, Load(m, r, p) + d)
Move(m, r, dst, src) == Store(m, r, dst, Load(m, r, src))

\* the byte at byte offset b of the block
ByteAt(m, b) == (Rd(m, (b \div WordSize) * WordSize) \div Pow2(8 * (b % WordSize))) % 256

\* the set of bit numbers (0 = least significant) set in a uint64_t below 2^31
BitsOf(w) == {i \in 0..30 : (w \div Pow2(i)) % 2 = 1}

PageMask(o) == (o \div PAGE_SIZE) * PAGE_SIZE

CacheOff(index) == OFF_cache + SizeofCache * index

(* ---------------- bitmaps ---------------- *)

\* (bit ^ 7) & 0xfu
GetBitShift(bit) == 8 * ((bit \div 8) % 2) + (7 - (bit % 8))

\* get_bit: ptr[bit >> 3] & (1u << ((bit ^ 7) & 0xfu)), returned as uint8_t
get_bit(m, bits, size, bit) ==
  LET byte == ByteAt(m, bits + (bit \div 8))
      k == GetBitShift(bit)
  IN IF k < 8 THEN ((byte \div Pow2(k)) % 2) * Pow2(k) ELSE 0

is_heap_object(m, object) ==
  LET bit == PageMask(object)
  IN 0 # get_bit(m, Rd(m, OFF_caches_bits), Rd(m, OFF_caches_size), bit)

is_cache_object(m, object) ==
  LET bit == PageMask(object)
  IN 0 # get_bit(m, Rd(m, OFF_heap_bits), Rd(m, OFF_heap_size), bit)

is_object(m, object) ==
  IF object <= Rd(m, OFF_pages) \/ object >= Rd(m, OFF_size) THEN FALSE
  ELSE IF object % 8 # 0 THEN FALSE
  ELSE IF ~is_cache_object(m, object) /\ ~is_heap_object(m, object) THEN FALSE
  ELSE TRUE

(* ---------------- region_init ---------------- *)

alloc_caches == <<8, 16, 32, 64, 128, 256>>
alloc_align == 8

aligned_size(size, align) ==
  LET a == IF align = 0 THEN 8 ELSE align
  IN IF a > size THEN a ELSE a * ((size + (a - 1)) \div a)

\* cache_init, the 16 name bytes left out
cache_init(m, size, align) ==
  LET id == Rd(m, OFF_caches_count)
      m0 == Wr(m, OFF_caches_count, id + 1)
      c == CacheOff(id)
      slab_space == PAGE_SIZE - SizeofSlab
      asz == aligned_size(size, align)
      zeroed == [o \in {x \in DOMAIN m0 : x < c \/ x >= c + SizeofCache} |-> m0[o]]
      m1 == Wr(zeroed, c + C_object_size, size + 65536 * align)
      m2 == Wr(m1, c + C_aligned_size, asz)
  IN Wr(m2, c + C_object_count, slab_space \div asz)

\* the loop of region_init over alloc_caches
RECURSIVE CachesInit(_, _)
CachesInit(m, index) ==
  IF index >= NumAllocCaches THEN m
  ELSE CachesInit(cache_init(m, alloc_caches[index + 1], alloc_align), index + 1)

HeaderPages == ((SizeofRegion + PAGE_SIZE) \div PAGE_SIZE) * PAGE_SIZE

BitmapSize(size) == (((size \div PAGE_SIZE) + 7) \div 8) * 8
UnusedSpace == (PAGE_SIZE - SizeofRegion) \div 2
BitmapPages(size) == ((2 * BitmapSize(size)) + (PAGE_SIZE - 1)) \div PAGE_SIZE

\* region_init from line 243 on: the layout of the bitmaps and the header
RegionLayout(m, address, size) ==
  LET bitmap_size == BitmapSize(size)
      inHeader == bitmap_size < UnusedSpace
      bitmap_pages == BitmapPages(size)
      heap_bits == IF inHeader THEN PAGE_SIZE - 2 * bitmap_size
                   ELSE size - PAGE_SIZE * bitmap_pages
      caches_bits == IF inHeader THEN PAGE_SIZE - bitmap_size
                     ELSE size - ((PAGE_SIZE * bitmap_pages) \div 4)
      m1 == Wr(m, OFF_heap_bits, heap_bits)
      m2 == Wr(m1, OFF_heap_size, bitmap_size)
      m3 == Wr(m2, OFF_caches_bits, caches_bits)
      m4 == Wr(m3, OFF_caches_size, bitmap_size)
      m5 == Wr(m4, OFF_size, size)
      m6 == Wr(m5, OFF_caches_count, 0)
      m7 == Wr(Wr(m6, OFF_free_page, HeaderPages), OFF_pages, HeaderPages)
  IN IF ~inHeader /\ bitmap_pages + NumAllocCaches >= size \div PAGE_SIZE
       THEN [ret |-> 0, mem |-> m]
       ELSE [ret |-> address, mem |-> CachesInit(m7, 0)]

\* region_init with the bug of accepting size / PAGE_SIZE = number of caches
region_init_fewPages(m, address, size) ==
  IF PageMask(address) # address THEN [ret |-> 0, mem |-> m]
  ELSE IF PageMask(size) # size \/ size < HeaderPages
          \/ size \div PAGE_SIZE < NumAllocCaches
    THEN [ret |-> 0, mem |-> m]
  ELSE RegionLayout(m, address, size)

\* region_init: [ret |-> 0 (NULL) or the address, mem |-> the block afterwards]
region_init(m, address, size) ==
  IF PageMask(address) # address THEN [ret |-> 0, mem |-> m]
  ELSE IF PageMask(size) # size \/ size < HeaderPages
          \/ size \div PAGE_SIZE <= NumAllocCaches
    THEN [ret |-> 0, mem |-> m]
  ELSE RegionLayout(m, address, size)

(* ---------------- pages and slabs ---------------- *)

AllBits == 0..63

\* __builtin_ctzll(~bits) for bits given as the set of its set bit numbers
CtzNot(bits) == CHOOSE i \in AllBits \ bits : \A j \in AllBits \ bits : i <= j

\* the address of a field of cache[index] and of a field of the slab at slab_offset
CachePtr(r, index) == swizzle(r, CacheOff(index))
SlabPtr(r, slab_offset) == swizzle(r, slab_offset)

\* the scan loop of allocate_page: [bits, block, bad] when it leaves the loop;
\* bad is set when the assertion inside the loop does not hold
RECURSIVE ScanBlocks(_, _, _, _, _, _)
ScanBlocks(m, r, bits, block, last_block, bad) ==
  IF bits = AllBits /\ block <= last_block
    THEN LET h == BitsOf(Load(m, r, swizzle(r, Rd(m, OFF_heap_bits)) + 8 * block))
             c == BitsOf(Load(m, r, swizzle(r, Rd(m, OFF_caches_bits)) + 8 * block))
         IN ScanBlocks(m, r, h \cup c, block + 1, last_block, bad \/ (h \cap c # {}))
    ELSE [bits |-> bits, block |-> block, bad |-> bad]

\* allocate_page after the scan loop (lines 316-325); bad, an assertion before
\* or in the first step of the scan does not hold
PageAfterScan(m, page, scan, last_block, bad, nd) ==
  LET bits == IF scan.block = last_block + 1
                THEN scan.bits \cup {63 - (Rd(m, OFF_heap_size) % 64)}
                ELSE scan.bits
      free_page == IF bits # AllBits THEN (scan.block + CtzNot(bits)) * PAGE_SIZE ELSE 0
  IN IF ~nd /\ (bad \/ scan.bad)
       THEN [mem |-> m, ret |-> 0, status |-> "abort"]
       ELSE [mem |-> Wr(m, OFF_free_page, free_page), ret |-> page, status |-> "ok"]

\* allocate_page from the assertions to the scan (lines 288-314)
PageScan(m, r, page, bit, block, last_block, nd) ==
  LET bits0 == IF bit > block THEN {63 - (bit % 64)} ELSE {}
      heap_bits == BitsOf(Load(m, r, swizzle(r, Rd(m, OFF_heap_bits)) + 8 * block))
      cache_bits == BitsOf(Load(m, r, swizzle(r, Rd(m, OFF_caches_bits)) + 8 * block))
  IN PageAfterScan(m, page,
                   ScanBlocks(m, r, bits0 \cup heap_bits \cup cache_bits, block + 1,
                              last_block, FALSE),
                   last_block,
                   \/ PageMask(page) # page
                   \/ Rd(m, OFF_heap_size) # Rd(m, OFF_caches_size)
                   \/ heap_bits \cap cache_bits # {},
                   nd)

\* allocate_page: [mem, ret, status]; nd is NDEBUG (assertions compiled out)
allocate_page(m, r, nd) ==
  LET page == Rd(m, OFF_free_page)
      bit == page \div PAGE_SIZE
  IN IF page = 0 THEN [mem |-> m, ret |-> 0, status |-> "ok"]
     ELSE PageScan(m, r, page, bit, ((bit + 1) \div 64) * 64,
                   (Rd(m, OFF_heap_size) \div 64) * 64, nd)

\* bits[byte] |= mask on the byte at block offset b
OrByte(m, b, mask) ==
  LET w == (b \div WordSize) * WordSize
      sh == Pow2(8 * (b % WordSize))
      byte == ByteAt(m, b)
      new == IF (byte \div mask) % 2 = 1 THEN byte ELSE byte + mask
  IN Wr(m, w, Rd(m, w) + (new - byte) * sh)

\* the free-object links the loop of allocate_slab stores: offset -> next_object
SlabLinks(objects, object_count, asz) ==
  [o \in {objects + k * asz : k \in 1..(object_count - 1)} |->
     IF o = objects + (object_count - 1) * asz THEN 0 ELSE o + asz]

\* SlabMark with the bug of marking the page in the heap bitmap as well
SlabMark_both(m, slab_offset) ==
  LET bit == slab_offset \div PAGE_SIZE
  IN OrByte(OrByte(m, Rd(m, OFF_caches_bits) + (bit \div 8), Pow2(7 - (bit % 8))),
            Rd(m, OFF_heap_bits) + (bit \div 8), Pow2(7 - (bit % 8)))

\* allocate_slab, line 339: the page's bit in the caches bitmap
SlabMark(m, slab_offset) ==
  LET bit == slab_offset \div PAGE_SIZE
  IN OrByte(m, Rd(m, OFF_caches_bits) + (bit \div 8), Pow2(7 - (bit % 8)))

\* memset((uint8_t *)slab + sizeof(uintptr_t), 0, PAGE_SIZE - sizeof(uintptr_t))
SlabClear(m, slab_offset) ==
  [o \in {x \in DOMAIN m : x < slab_offset + WordSize
                           \/ x >= slab_offset + PAGE_SIZE} |-> m[o]]

\* allocate_slab, lines 353-365: the links, then the cache's free slab list;
\* oob when a link is stored past the block
SlabLink(m, r, slab_offset, cache, links) ==
  LET inside == {o \in DOMAIN links : o + WordSize <= Rd(m, OFF_size)}
  IN [mem |-> Inc(Store(WrMany(m, [o \in inside |-> links[o]]),
                        r, cache + C_free_list, slab_offset),
                  r, cache + C_free_count, 1),
      ret |-> slab_offset, status |-> "ok", oob |-> inside # DOMAIN links]

\* allocate_slab, lines 345-351: the slab header
SlabFormat(m, r, slab_offset, cache) ==
  LET object_count == Load(m, r, cache + C_object_count)
      asz == Load(m, r, cache + C_aligned_size)
      objects == slab_offset + (PAGE_SIZE - ((object_count - 1) * asz))
      header == (slab_offset + S_cache :> unswizzle(r, cache))
                @@ (slab_offset + S_list :> unswizzle(r, cache + C_free_list))
                @@ (slab_offset + S_next :> Load(m, r, cache + C_free_list))
                @@ (slab_offset + S_objects :> objects)
                @@ (slab_offset + S_free_list :> objects)
                @@ (slab_offset + S_free_count :> object_count)
  IN SlabLink(WrMany(m, header), r, slab_offset, cache,
              SlabLinks(objects, object_count, asz))

\* allocate_slab once allocate_page has returned ap
SlabOnPage(ap, r, index, nd) ==
  IF ap.status # "ok" \/ ap.ret = 0
    THEN [mem |-> ap.mem, ret |-> 0, status |-> ap.status, oob |-> FALSE]
  ELSE IF ~nd /\ ~(ap.ret \div PAGE_SIZE < Rd(ap.mem, OFF_caches_size))
    THEN [mem |-> ap.mem, ret |-> 0, status |-> "abort", oob |-> FALSE]
  ELSE SlabFormat(SlabClear(SlabMark(ap.mem, ap.ret), ap.ret), r, ap.ret,
                  CachePtr(r, index))

\* allocate_slab: [mem, ret, status, oob]
allocate_slab(m, r, index, nd) == SlabOnPage(allocate_page(m, r, nd), r, index, nd)

(* ---------------- caches ---------------- *)

Outcome(m, ret, status) == [mem |-> m, ret |-> ret, status |-> status]

\* the tail of cache_alloc (lines 411-413): take the head of the slab's free
\* objects.  The memcpy reads the word at object_offset: past the end of the
\* block the read faults or delivers whatever is mapped there.
PopObject(m, r, slab) ==
  LET m1 == Store(m, r, slab + S_free_count, Load(m, r, slab + S_free_count) - 1)
      object_offset == Load(m1, r, slab + S_free_list)
  IN IF object_offset + WordSize <= Rd(m1, OFF_size)
       THEN {Outcome(Store(m1, r, slab + S_free_list,
                           Load(m1, r, swizzle(r, object_offset))),
                     object_offset, "ok")}
       ELSE {Outcome(m1, object_offset, "segv")}
            \cup {Outcome(Store(m1, r, slab + S_free_list, g), object_offset, "ok") :
                    g \in GarbageWords}

\* cache_alloc, lines 383-387: the depleted partial slab goes to the full slabs
MoveToFull(m, r, cache, slab, slab_offset) ==
  Store(Inc(Move(Move(Move(Inc(m, r, cache + C_partial_count, -1),
                           r, cache + C_partial_list, slab + S_next),
                      r, slab + S_next, cache + C_full_list),
                 r, slab + S_list, slab + S_next),
            r, cache + C_full_count, 1),
        r, cache + C_full_list, slab_offset)

\* cache_alloc, the branch taken when cache->partial_slabs.list is not 0
AllocPartial(m, r, cache) ==
  LET slab_offset == Load(m, r, cache + C_partial_list)
      slab == SlabPtr(r, slab_offset)
  IN IF Load(m, r, slab + S_free_count) = 1
       THEN PopObject(MoveToFull(m, r, cache, slab, slab_offset), r, slab)
       ELSE PopObject(m, r, slab)

\* cache_alloc, lines 398-408: the slab goes to the full or the partial slabs
AllocFreeLink(m, r, cache, slab, slab_offset) ==
  LET toFull == Load(m, r, slab + S_free_count) = 1
      lst == IF toFull THEN C_full_list ELSE C_partial_list
      cnt == IF toFull THEN C_full_count ELSE C_partial_count
  IN Store(Inc(Move(Store(m, r, slab + S_list, unswizzle(r, cache + lst)),
                    r, slab + S_next, cache + lst),
               r, cache + cnt, 1),
           r, cache + lst, slab_offset)

\* cache_alloc, the else branch once cache->free_slabs.list is not 0
AllocFree(m, r, cache) ==
  LET slab_offset == Load(m, r, cache + C_free_list)
      slab == SlabPtr(r, slab_offset)
  IN PopObject(AllocFreeLink(Move(Inc(m, r, cache + C_free_count, -1),
                                  r, cache + C_free_list, slab + S_next),
                             r, cache, slab, slab_offset),
               r, slab)

\* cache_alloc, the else branch when allocate_slab has returned as
AllocNewSlab(as, r, cache, nd) ==
  IF as.status # "ok" THEN {Outcome(as.mem, 0, as.status)}
  ELSE IF as.ret = 0 THEN {Outcome(as.mem, 0, "ok")}
  ELSE IF ~nd /\ (Load(as.mem, r, cache + C_free_count) = 0
                  \/ Load(as.mem, r, cache + C_free_list) = 0)
    THEN {Outcome(as.mem, 0, "abort")}
  ELSE AllocFree(as.mem, r, cache)
       \cup (IF as.oob THEN {Outcome(as.mem, 0, "segv")} ELSE {})

\* cache_alloc with the bug of passing over the partial slabs
cache_alloc_skipPartial(m, r, index, size, nd) ==
  LET cache == CachePtr(r, index)
  IN IF Load(m, r, cache + C_free_list) # 0 THEN
       IF ~nd /\ Load(m, r, cache + C_free_count) = 0
         THEN {Outcome(m, 0, "abort")}
         ELSE AllocFree(m, r, cache)
     ELSE AllocNewSlab(allocate_slab(m, r, index, nd), r, cache, nd)

\* cache_alloc: the set of outcomes [mem, ret, status]
cache_alloc(m, r, index, size, nd) ==
  LET cache == CachePtr(r, index)
  IN IF Load(m, r, cache + C_partial_list) # 0 THEN AllocPartial(m, r, cache)
     ELSE IF Load(m, r, cache + C_free_list) # 0 THEN
       IF ~nd /\ Load(m, r, cache + C_free_count) = 0
         THEN {Outcome(m, 0, "abort")}
         ELSE AllocFree(m, r, cache)
     ELSE AllocNewSlab(allocate_slab(m, r, index, nd), r, cache, nd)

\* the double-free loop of cache_free (lines 436-440): "pass" when the rest of
\* cache_free runs.  free_object is never advanced, so with a list head that is
\* not 0 the loop ends only in a failed assertion; with the assertions compiled
\* out it has no side effect and the compiler may drop it or keep it spinning.
DoubleFreeLoop(m, r, slab, object, next_page, nd) ==
  LET free_object == Load(m, r, slab + S_free_list)
  IN IF free_object = 0 THEN {"pass"}
     ELSE IF nd THEN {"hang", "pass"}
     ELSE IF free_object = object \/ ~(free_object < next_page) THEN {"abort"}
     ELSE {"hang"}

\* cache_free, lines 455-457, after the slab left the partial slabs (unlinked)
\* or was not at their head
FreeToFreeList(m, r, cache, slab, slab_offset, unlinked, nd) ==
  IF ~nd /\ unlinked /\ ((Load(m, r, cache + C_partial_count) = 0)
                         # (Load(m, r, cache + C_partial_list) = 0))
    THEN Outcome(m, 0, "abort")
    ELSE Outcome(Store(Inc(Move(m, r, slab + S_next, cache + C_free_list),
                           r, cache + C_free_count, 1),
                       r, cache + C_free_list, slab_offset),
                 0, "ok")

\* cache_free, lines 446-453, once the object is pushed
FreeRelink(m, r, cache, slab, slab_offset, nd) ==
  IF Load(m, r, slab + S_free_count) # Load(m, r, cache + C_object_count)
    THEN Outcome(m, 0, "ok")
  ELSE IF Load(m, r, cache + C_partial_list) = slab_offset
    THEN FreeToFreeList(Move(Inc(m, r, cache + C_partial_count, -1),
                             r, cache + C_partial_list, slab + S_next),
                        r, cache, slab, slab_offset, TRUE, nd)
  ELSE FreeToFreeList(m, r, cache, slab, slab_offset, FALSE, nd)

\* cache_free after the loop (lines 442-457)
FreePush(m, r, cache, slab, slab_offset, object, nd) ==
  FreeRelink(Inc(Store(Move(m, r, swizzle(r, object), slab + S_free_list),
                       r, slab + S_free_list, object),
                 r, slab + S_free_count, 1),
             r, cache, slab, slab_offset, nd)

\* object_cache: the index of the cache the slab header names; -1 stands for
\* the huge index the unsigned subtraction gives below &caches.cache[0]
object_cache(m, r, object) ==
  LET slab == SlabPtr(r, PageMask(object))
      cache_offset == Load(m, r, slab + S_cache)
  IN IF cache_offset < OFF_cache THEN -1
     ELSE (swizzle(r, cache_offset) - CachePtr(r, 0)) \div SizeofCache

\* cache_free: the set of outcomes [mem, ret, status]
cache_free(m, r, index, object, nd) ==
  LET slab_offset == PageMask(object)
      next_page == slab_offset + PAGE_SIZE
      slab == SlabPtr(r, slab_offset)
      cache == CachePtr(r, index)
  IN IF index < 0 \/ CacheOff(index) + SizeofCache > Rd(m, OFF_size)
       THEN {Outcome(m, 0, IF nd THEN "wild" ELSE "abort")}
     ELSE IF ~nd /\ (~(index < WordSize)
                     \/ swizzle(r, Load(m, r, slab + S_cache)) # cache)
       THEN {Outcome(m, 0, "abort")}
     ELSE {IF l = "pass" THEN FreePush(m, r, cache, slab, slab_offset, object, nd)
           ELSE Outcome(m, 0, l) :
             l \in DoubleFreeLoop(m, r, slab, object, next_page, nd)}

(* ---------------- the public operations ---------------- *)

is_small_object_size(size) == size <= SmallObjectMax

\* alloc_size_index with the entry for 24 bytes naming the 16-byte cache
alloc_size_index_short ==
  <<0, 1, 1, 2, 3, 3, 3, 3, 4, 4, 4, 4, 4, 4, 4, 4,
    5, 5, 5, 5, 5, 5, 5, 5, 5, 5, 5, 5, 5, 5, 5, 5>>

alloc_size_index ==
  <<0, 1, 2, 2, 3, 3, 3, 3, 4, 4, 4, 4, 4, 4, 4, 4,
    5, 5, 5, 5, 5, 5, 5, 5, 5, 5, 5, 5, 5, 5, 5, 5>>

small_object_cache(size) == alloc_size_index[((size - 1) \div 8) + 1]

\* region_alloc: the set of outcomes.  For size > 256 control reaches the end
\* of the function without a return statement: the caller reads garbage.
region_alloc(m, r, size, nd) ==
  IF is_small_object_size(size)
    THEN IF size = 0 THEN {Outcome(m, 0, "ok")}
         ELSE cache_alloc(m, r, small_object_cache(size), size, nd)
    ELSE {Outcome(m, g, "ok") : g \in GarbageWords}

\* region_free with the bug of letting the offset pages itself through
region_free_atPages(m, r, object, nd) ==
  IF object < Rd(m, OFF_pages) \/ object >= Rd(m, OFF_size) THEN {Outcome(m, 0, "ok")}
  ELSE IF object % 8 # 0 THEN {Outcome(m, 0, "ok")}
  ELSE IF is_cache_object(m, object)
    THEN cache_free(m, r, object_cache(m, r, object), object, nd)
    ELSE {Outcome(m, 0, "ok")}

\* region_free: the set of outcomes
region_free(m, r, object, nd) ==
  IF object <= Rd(m, OFF_pages) \/ object >= Rd(m, OFF_size) THEN {Outcome(m, 0, "ok")}
  ELSE IF object % 8 # 0 THEN {Outcome(m, 0, "ok")}
  ELSE IF is_cache_object(m, object)
    THEN cache_free(m, r, object_cache(m, r, object), object, nd)
    ELSE {Outcome(m, 0, "ok")}

(* ---------------- the program as a state machine ---------------- *)

VARIABLES
  mem,       \* the block: offset of a non-zero word -> its value
  region,    \* what region_init returned (0 before the call and for NULL)
  ndebug,    \* TRUE when the build defines NDEBUG
  status,    \* "start", "ok", "null" (region_init failed: the caller exits),
             \* "abort" (failed assertion), "segv", "hang", "wild"
  last,      \* the call made last, with its result
  live,      \* [off, cls]: non-zero offsets region_alloc returned for a size
             \* of 1..256 (class cls) and not passed to region_free since
  returned,  \* every offset region_alloc has returned
  ops        \* number of calls made after region_init

vars == <<mem, region, ndebug, status, last, live, returned, ops>>

\* inputs of the calls
Addresses == {256 * PAGE_SIZE, 256 * PAGE_SIZE + WordSize}
InitSizes == {PAGE_SIZE, NumAllocCaches * PAGE_SIZE, (NumAllocCaches + 1) * PAGE_SIZE,
              RegionPages * PAGE_SIZE, RegionPages * PAGE_SIZE + WordSize}
AllocSizes == {0, 7, 16, 32, 257}
\* offsets region_free must reject: not above pages, misaligned, not below size
FreeOffsets(m) == {Rd(m, OFF_pages), Rd(m, OFF_pages) + 4, Rd(m, OFF_size)}
\* offsets is_object is asked about besides the returned ones
ProbeOffsets(m) == {Rd(m, OFF_pages), Rd(m, OFF_pages) + 2 * WordSize}

\* free_objects.count of a slab and object_count of cache[index]
FreeCount(m, slab) == Rd(m, slab + S_free_count)
ObjectCount(m, index) == Rd(m, CacheOff(index) + C_object_count)

\* an offset region_free must ignore
InvalidOffset(m, o) == o <= Rd(m, OFF_pages) \/ o >= Rd(m, OFF_size) \/ o % 8 # 0

\* last: op, its argument (arg: address or offset; size), its result (ret), and
\* what the claims need of the state the call was made in: cls, the size class
\* asked for (-1: none); lifoOff/lifoCls, the offset (and its class) that the
\* call before allocated and this or the previous call freed; canServe; relive,
\* the offset returned was live; twice, region_free(o) directly after
\* o = region_alloc(..) # 0 and region_free(o)
NoCall == [op |-> "none", arg |-> 0, size |-> 0, ret |-> 0, cls |-> -1,
           lifoOff |-> 0, lifoCls |-> -1, canServe |-> FALSE, relive |-> FALSE,
           twice |-> FALSE]

ClassOf(size) == IF size >= 1 /\ size <= SmallObjectMax THEN small_object_cache(size) ELSE -1

\* the selected cache can serve a request without a new page, or a page is free
CanServe(m, r, index) ==
  LET cache == CachePtr(r, index)
      partial == Load(m, r, cache + C_partial_list)
      free == Load(m, r, cache + C_free_list)
      page == Rd(m, OFF_free_page)
  IN \/ partial # 0 /\ Load(m, r, SlabPtr(r, partial) + S_free_count) > 0
     \/ free # 0 /\ Load(m, r, SlabPtr(r, free) + S_free_count) > 0
     \/ page # 0

Init ==
  /\ mem = [o \in {} |-> 0]
  /\ region = 0
  /\ ndebug \in BOOLEAN
  /\ status = "start"
  /\ last = NoCall
  /\ live = {}
  /\ returned = {}
  /\ ops = 0

\* a call of region_init with a size out of sizes
RegionInitOf(sizes) ==
  /\ status = "start"
  /\ \E address \in Addresses, size \in sizes :
       LET res == region_init(mem, address, size)
       IN /\ mem' = res.mem
          /\ region' = res.ret
          /\ status' = IF res.ret = 0 THEN "null" ELSE "ok"
          /\ last' = [NoCall EXCEPT !.op = "init", !.arg = address, !.size = size,
                                    !.ret = res.ret]
  /\ UNCHANGED <<ndebug, live, returned, ops>>

RegionInit == RegionInitOf(InitSizes)

\* one call region_alloc(region, size)
AllocCall(size) ==
  /\ \E out \in region_alloc(mem, region, size, ndebug) :
    LET cls == ClassOf(size)
        ok == out.status = "ok"
    IN /\ mem' = out.mem
       /\ status' = out.status
       /\ last' = [NoCall EXCEPT
            !.op = "alloc", !.size = size, !.cls = cls,
            !.ret = IF ok THEN out.ret ELSE 0,
            !.lifoOff = IF last.op = "free" /\ last.lifoOff # 0 /\ last.lifoCls = cls
                          THEN last.lifoOff ELSE 0,
            !.canServe = cls >= 0 /\ CanServe(mem, region, cls),
            !.relive = ok /\ cls >= 0 /\ out.ret # 0
                       /\ \E l \in live : l.off = out.ret]
       /\ live' = IF ok /\ cls >= 0 /\ out.ret # 0
                    THEN live \cup {[off |-> out.ret, cls |-> cls]} ELSE live
       /\ returned' = IF ok THEN returned \cup {out.ret} ELSE returned
  /\ ops' = ops + 1
  /\ UNCHANGED <<region, ndebug>>

\* a call of region_alloc with a size out of sizes
AllocOf(sizes) ==
  /\ status = "ok"
  /\ ops < MaxOps
  /\ \E size \in sizes : AllocCall(size)

Alloc == AllocOf(AllocSizes)

\* one call region_free(region, object)
FreeCall(object) ==
  /\ \E out \in region_free(mem, region, object, ndebug) :
       /\ mem' = out.mem
       /\ status' = out.status
       /\ last' = [NoCall EXCEPT
            !.op = "free", !.arg = object,
            !.lifoOff = IF last.op = "alloc" /\ last.ret = object /\ object # 0
                          THEN object ELSE 0,
            !.lifoCls = IF last.op = "alloc" /\ last.ret = object /\ object # 0
                          THEN last.cls
                        ELSE IF last.op = "free" /\ last.arg = object
                          THEN last.lifoCls ELSE -1,
            !.twice = last.op = "free" /\ last.arg = object /\ last.lifoOff = object
                      /\ object # 0]
       /\ live' = {l \in live : l.off # object}
  /\ ops' = ops + 1
  /\ UNCHANGED <<region, ndebug, returned>>

Free ==
  /\ status = "ok"
  /\ ops < MaxOps
  /\ \E object \in returned \cup FreeOffsets(mem) : FreeCall(object)

IsObject ==
  /\ status = "ok"
  /\ ops < MaxOps
  /\ \E object \in returned \cup ProbeOffsets(mem) :
       last' = [NoCall EXCEPT !.op = "is_object", !.arg = object,
                              !.ret = IF is_object(mem, object) THEN 1 ELSE 0]
  /\ ops' = ops + 1
  /\ UNCHANGED <<mem, region, ndebug, status, live, returned>>

Next == RegionInit \/ Alloc \/ Free \/ IsObject

Spec == Init /\ [][Next]_vars

\* the first region_alloc on a fresh region, for every size up to 256
AllocFirst == ops = 0 /\ AllocOf(0..SmallObjectMax)

NextSizes == RegionInit \/ AllocFirst

SpecSizes == Init /\ [][NextSizes]_vars

\* filling a slab of the 256-byte cache on a fresh region: object_count calls
\* of region_alloc, then region_free of what they returned, in any order
FillSize == SmallObjectMax
FillClass == ClassOf(FillSize)

FillAlloc ==
  /\ status = "ok"
  /\ ops < ObjectCount(mem, FillClass)
  /\ AllocCall(FillSize)

FillFree ==
  /\ status = "ok"
  /\ ops >= ObjectCount(mem, FillClass)
  /\ \E l \in live : FreeCall(l.off)

NextFill == RegionInit \/ FillAlloc \/ FillFree

SpecFill == Init /\ [][NextFill]_vars

\* region_init on blocks of every number of pages up to MaxLayoutPages: the
\* bitmaps leave the header page at 1129 pages and take two tail pages from 2049
LayoutSizes == {pages * PAGE_SIZE : pages \in 1..MaxLayoutPages}
LayoutInit == RegionInitOf(LayoutSizes)

NextLayout == LayoutInit

SpecLayout == Init /\ [][NextLayout]_vars

(* ---------------- what the claims speak of ---------------- *)

\* the region is initialised and the last call has returned
Returned == status = "ok"

\* bit p of the bitmap at offset bits, most significant bit of a byte first
\* (the numbering allocate_slab sets bits with)
PageBit(m, bits, p) == (ByteAt(m, bits + (p \div 8)) \div Pow2(7 - (p % 8))) % 2 = 1

\* the page of offset o is marked in exactly one of the two bitmaps
MarkedOnce(m, o) ==
  PageBit(m, Rd(m, OFF_caches_bits), o \div PAGE_SIZE)
    # PageBit(m, Rd(m, OFF_heap_bits), o \div PAGE_SIZE)

\* the bytes [off, off + aligned_size) of a live object
LiveEnd(m, l) == l.off + Rd(m, CacheOff(l.cls) + C_aligned_size)
Disjoint(m, a, b) == LiveEnd(m, a) <= b.off \/ LiveEnd(m, b) <= a.off

\* facts about the model itself
TypeOK ==
  /\ \A o \in DOMAIN mem : mem[o] # 0 /\ mem[o] >= -1 /\ mem[o] < Pow2(30) /\ o % WordSize = 0
  /\ status \in {"start", "ok", "null", "abort", "segv", "hang"}
  /\ ops \in 0..MaxOps

\* allocate_page hands out the first data page again and again: free_page never moves
FreePageStays == status \notin {"start", "null"} => Rd(mem, OFF_free_page) = HeaderPages

(* ---------------- claims ---------------- *)

\* C1: every non-zero offset region_alloc returns (for a size of 1..256)
\* satisfies is_object at the moment it is returned.
C1_AllocatedIsObject ==
  (Returned /\ last.op = "alloc" /\ last.cls >= 0 /\ last.ret # 0)
    => is_object(mem, last.ret)

\* C2: is_object(region, o) is true exactly when o > pages, o < size, o is a
\* multiple of 8 and the page o / PAGE_SIZE is marked in exactly one bitmap.
C2_IsObjectExact ==
  (Returned /\ last.op = "is_object")
    => ((last.ret = 1) <=> (/\ last.arg > Rd(mem, OFF_pages)
                            /\ last.arg < Rd(mem, OFF_size)
                            /\ last.arg % 8 = 0
                            /\ MarkedOnce(mem, last.arg)))

\* C3: the byte ranges of the live objects are pairwise disjoint, and
\* region_alloc never returns an offset that is live.
C3_LiveDisjoint ==
  Returned => /\ ~last.relive
              /\ \A a \in live : \A b \in live :
                   a # b => Disjoint(mem, a, b)

\* C4: after o = region_alloc(size) # 0 and then region_free(o), the next
\* region_alloc of the same size class returns o.
C4_LifoReuse ==
  (Returned /\ last.op = "alloc" /\ last.lifoOff # 0) => last.ret = last.lifoOff

\* C5: for 1 <= size <= 256 region_alloc returns a non-zero offset whenever the
\* selected cache has a partial or free slab with free objects or a page is free.
C5_ZeroOnlyWhenExhausted ==
  (Returned /\ last.op = "alloc" /\ last.cls >= 0 /\ last.canServe) => last.ret # 0

\* C7: every call terminates; region_free never spins in its double-free walk.
C7_Terminates == status # "hang"

\* C8: in a build with assertions, region_free(o) of an offset that is already
\* freed fails an assertion, as in o = alloc(16); free(o); free(o).
C8_DoubleFreeAsserts ==
  (~ndebug /\ last.op = "free" /\ last.twice /\ last.lifoCls = 1) => status = "abort"

\* C9: region_free(o) with o <= pages, o >= size or o not a multiple of 8
\* returns and leaves the whole block as it was.
C9_InvalidFreeNoChange ==
  [][(last'.op = "free" /\ ops' = ops + 1 /\ InvalidOffset(mem, last'.arg))
       => (mem' = mem /\ status' = "ok")]_vars

\* a rejected region_free(pages) on a region whose first data page holds a
\* slab that is_cache_object accepts
C9_Witness ==
  /\ Returned /\ last.op = "free" /\ last.arg = Rd(mem, OFF_pages)
  /\ live # {} /\ is_cache_object(mem, last.arg)

\* C10: region_init returns NULL and writes nothing when the address is not
\* page-aligned, the size is no multiple of the page size, or the size is no
\* more than 6 pages.
C10_InitRejects ==
  (last.op = "init" /\ (\/ last.arg % PAGE_SIZE # 0
                        \/ last.size % PAGE_SIZE # 0
                        \/ last.size \div PAGE_SIZE <= 6))
    => (last.ret = 0 /\ region = 0 /\ status = "null" /\ mem = [o \in {} |-> 0])

\* region_init on a single page has returned NULL
C10_Witness ==
  last.op = "init" /\ last.arg % PAGE_SIZE = 0 /\ last.size = PAGE_SIZE /\ status = "null"

\* another address the same block could be mapped at
OtherBase(r) == r + 16 * PAGE_SIZE

\* C11: the same call on the same contents of a block mapped at another base
\* address returns the same offset and leaves the same contents.
C11_PositionIndependent ==
  [][/\ (last'.op = "init" /\ status = "start" /\ status' = "ok")
          => LET res == region_init(mem, OtherBase(last'.arg), last'.size)
             IN res.ret # 0 /\ res.mem = mem'
     /\ (last'.op = "alloc" /\ last'.cls >= 0 /\ ops' = ops + 1 /\ status' = "ok")
          => \A o \in region_alloc(mem, OtherBase(region), last'.size, ndebug) :
               o.status = "ok" => (o.mem = mem' /\ o.ret = last'.ret)
     /\ (last'.op = "free" /\ ops' = ops + 1 /\ status' = "ok")
          => \A o \in region_free(mem, OtherBase(region), last'.arg, ndebug) :
               o.status = "ok" => o.mem = mem'
    ]_vars

\* the 88 bytes of cache[index]
CacheWords(m, index) ==
  [k \in 0..((SizeofCache \div WordSize) - 1) |-> Rd(m, CacheOff(index) + WordSize * k)]

\* object_size of cache[index] (the low 16 bits of its word)
ObjectSize(m, index) == Rd(m, CacheOff(index) + C_object_size) % 65536

\* C12: region_alloc(size), 1 <= size <= 256, is served by the cache with the
\* smallest object_size >= size and touches no other cache; region_alloc(0)
\* returns 0 and changes nothing.
C12_SizeClass ==
  [][(last'.op = "alloc" /\ ops' = ops + 1)
       => IF last'.size = 0
            THEN mem' = mem /\ status' = "ok" /\ last'.ret = 0
            ELSE \E k \in 0..(NumAllocCaches - 1) :
                   /\ ObjectSize(mem, k) >= last'.size
                   /\ \A i \in 0..(NumAllocCaches - 1) :
                        ObjectSize(mem, i) >= last'.size => ObjectSize(mem, k) <= ObjectSize(mem, i)
                   /\ status' = "ok" /\ last'.ret # 0
                   /\ Rd(mem', PageMask(last'.ret) + S_cache) = CacheOff(k)
                   /\ \A i \in 0..(NumAllocCaches - 1) \ {k} :
                        CacheWords(mem', i) = CacheWords(mem, i)
    ]_vars

\* region_alloc(256) and region_alloc(1) have been served, by cache 5 and cache 0
C12_Witness ==
  /\ Returned /\ last.op = "alloc" /\ last.size \in {1, SmallObjectMax} /\ last.ret # 0
  /\ Rd(mem, PageMask(last.ret) + S_cache) = CacheOff(IF last.size = 1 THEN 0 ELSE 5)

\* the page indexes of the region
PageIndexes(m) == 0..((Rd(m, OFF_size) \div PAGE_SIZE) - 1)

\* C13: after every call no page is marked in both bitmaps, and the assertions
\* of allocate_page hold in the state reached.
C13_BitmapsDisjoint ==
  Returned =>
    /\ \A p \in PageIndexes(mem) :
         ~(PageBit(mem, Rd(mem, OFF_heap_bits), p) /\ PageBit(mem, Rd(mem, OFF_caches_bits), p))
    /\ allocate_page(mem, region, FALSE).status = "ok"

\* two caches have each built a slab, and the slab page is marked
C13_Witness ==
  /\ Returned
  /\ \E a \in live : \E b \in live : a.cls # b.cls
  /\ PageBit(mem, Rd(mem, OFF_caches_bits), HeaderPages \div PAGE_SIZE)

\* the slabs linked from head through their next fields (at most fuel of them)
RECURSIVE SlabsFrom(_, _, _)
SlabsFrom(m, head, fuel) ==
  IF head = 0 \/ fuel = 0 \/ head + SizeofSlab > Rd(m, OFF_size) THEN {}
  ELSE {head} \cup SlabsFrom(m, Rd(m, head + S_next), fuel - 1)

\* the slabs on the list whose head field lies at offset lst of cache[index]
SlabsOn(m, index, lst) == SlabsFrom(m, Rd(m, CacheOff(index) + lst), MaxOps + 1)


\* C14: after every call, a slab on full_slabs has no free object, a slab on
\* free_slabs has object_count of them, a slab on partial_slabs some but not all.
C14_ListCounts ==
  Returned =>
    \A index \in 0..(NumAllocCaches - 1) :
      /\ \A slab \in SlabsOn(mem, index, C_full_list) : FreeCount(mem, slab) = 0
      /\ \A slab \in SlabsOn(mem, index, C_free_list) :
           FreeCount(mem, slab) = ObjectCount(mem, index)
      /\ \A slab \in SlabsOn(mem, index, C_partial_list) :
           FreeCount(mem, slab) > 0 /\ FreeCount(mem, slab) < ObjectCount(mem, index)

\* the slots linked from head through their first words, until 0, the end of
\* the block or fuel slots
RECURSIVE SlotsFrom(_, _, _)
SlotsFrom(m, head, fuel) ==
  IF head = 0 \/ fuel = 0 \/ head + WordSize > Rd(m, OFF_size) THEN {}
  ELSE {head} \cup SlotsFrom(m, Rd(m, head), fuel - 1)

\* the free-object list of the slab at offset slab; a page holds no more than
\* PAGE_SIZE / 8 slots
FreeSlots(m, slab) == SlotsFrom(m, Rd(m, slab + S_free_list), PAGE_SIZE \div WordSize)

\* the slabs: the pages marked in the caches bitmap
Slabs(m) == {p * PAGE_SIZE : p \in {q \in PageIndexes(m) : PageBit(m, Rd(m, OFF_caches_bits), q)}}

\* C15: after every call the free-object list of every slab visits exactly
\* free_objects.count slots, all in the slab's page at objects + k * aligned_size.
C15_FreeListCount ==
  Returned =>
    \A slab \in Slabs(mem) :
      LET cache == Rd(mem, slab + S_cache)
          asz == Rd(mem, cache + C_aligned_size)
          objects == Rd(mem, slab + S_objects)
      IN /\ Cardinality(FreeSlots(mem, slab)) = FreeCount(mem, slab)
         /\ \A o \in FreeSlots(mem, slab) :
              /\ PageMask(o) = slab
              /\ \E k \in 0..(Rd(mem, cache + C_object_count) - 1) : o = objects + k * asz

\* C16: after every call free_page is 0 or the offset of a page of the region
\* that is marked in neither bitmap.
C16_FreePageIsFree ==
  Returned =>
    LET page == Rd(mem, OFF_free_page)
    IN \/ page = 0
       \/ /\ PageMask(page) = page /\ page < Rd(mem, OFF_size)
          /\ ~PageBit(mem, Rd(mem, OFF_heap_bits), page \div PAGE_SIZE)
          /\ ~PageBit(mem, Rd(mem, OFF_caches_bits), page \div PAGE_SIZE)

\* C17: once object_count objects of a size class have been allocated on a
\* fresh region and all of them freed, the cache has one slab, on free_slabs,
\* with object_count free objects, and no full or partial slab.
C17_FillAndDrain ==
  (Returned /\ ops >= ObjectCount(mem, FillClass) /\ live = {})
    => LET cache == CacheOff(FillClass)
       IN /\ Rd(mem, cache + C_free_count) = 1
          /\ Rd(mem, cache + C_free_list) # 0
          /\ FreeCount(mem, Rd(mem, cache + C_free_list)) = ObjectCount(mem, FillClass)
          /\ Rd(mem, cache + C_full_count) = 0
          /\ Rd(mem, cache + C_partial_count) = 0

\* cache[index] has neither a partial nor a free slab: cache_alloc makes one
NeedsSlab(m, index) ==
  /\ Rd(m, CacheOff(index) + C_partial_list) = 0
  /\ Rd(m, CacheOff(index) + C_free_list) = 0

\* C18: the page a cache builds a new slab on is marked in neither bitmap
\* when it is taken and holds no slab yet, and the caches bitmap gains exactly
\* one bit.
C18_NewSlabNewPage ==
  [][(/\ last'.op = "alloc" /\ ops' = ops + 1 /\ last'.cls >= 0 /\ status' = "ok"
      /\ NeedsSlab(mem, last'.cls)
      /\ allocate_page(mem, region, ndebug).ret # 0)
       => LET page == allocate_page(mem, region, ndebug).ret
          IN /\ ~PageBit(mem, Rd(mem, OFF_heap_bits), page \div PAGE_SIZE)
             /\ ~PageBit(mem, Rd(mem, OFF_caches_bits), page \div PAGE_SIZE)
             /\ page \notin Slabs(mem)
             /\ Cardinality(Slabs(mem')) = Cardinality(Slabs(mem)) + 1
    ]_vars

\* C19: after every call the list field of every slab on a slab list of a
\* cache is the offset of that list's field in the cache.
C19_ListField ==
  Returned =>
    \A index \in 0..(NumAllocCaches - 1) :
      \A lst \in {C_full_list, C_partial_list, C_free_list} :
        \A slab \in SlabsOn(mem, index, lst) :
          Rd(mem, slab + S_list) = CacheOff(index) + lst

\* C20: objects of every slab is slab + PAGE_SIZE - object_count * aligned_size;
\* the object_count slots lie behind the slab header and in the slab's page,
\* the last one ending on the page boundary.
C20_SlabLayout ==
  Returned =>
    \A slab \in Slabs(mem) :
      LET cache == Rd(mem, slab + S_cache)
          asz == Rd(mem, cache + C_aligned_size)
          object_count == Rd(mem, cache + C_object_count)
          objects == Rd(mem, slab + S_objects)
      IN /\ objects = slab + PAGE_SIZE - object_count * asz
         /\ objects >= slab + SizeofSlab
         /\ objects + object_count * asz = slab + PAGE_SIZE
         /\ \A k \in 0..(object_count - 1) : PageMask(objects + k * asz) = slab

\* the words of the two bitmaps (their size is a multiple of 8 bytes)
BitmapWords(m) ==
  [which \in {OFF_heap_bits, OFF_caches_bits} |->
     [w \in 0..((Rd(m, which + WordSize) \div WordSize) - 1) |->
        Rd(m, Rd(m, which) + WordSize * w)]]

\* C21: region_alloc returns the head of the free objects of the first slab on
\* partial_slabs when there is one, else of the first slab on free_slabs when
\* there is one; in both cases no slab is made: free_page and the bitmaps stay.
C21_SearchOrder ==
  [][(last'.op = "alloc" /\ ops' = ops + 1 /\ last'.cls >= 0 /\ status' = "ok")
       => LET cache == CacheOff(last'.cls)
              partial == Rd(mem, cache + C_partial_list)
              free == Rd(mem, cache + C_free_list)
          IN /\ partial # 0 => last'.ret = Rd(mem, partial + S_free_list)
             /\ (partial = 0 /\ free # 0) => last'.ret = Rd(mem, free + S_free_list)
             /\ ~NeedsSlab(mem, last'.cls)
                  => /\ Rd(mem', OFF_free_page) = Rd(mem, OFF_free_page)
                     /\ BitmapWords(mem') = BitmapWords(mem)
                     /\ Slabs(mem') = Slabs(mem)
    ]_vars

\* region_alloc has taken the object freed just before from the slab that
\* region_free had put on free_slabs, and moved that slab to partial_slabs
C21_Witness ==
  /\ Returned /\ last.op = "alloc" /\ last.lifoOff # 0 /\ last.ret = last.lifoOff
  /\ Rd(mem, CacheOff(last.cls) + C_partial_list) = PageMask(last.ret)
  /\ Rd(mem, CacheOff(last.cls) + C_free_list) = 0
  /\ FreeCount(mem, PageMask(last.ret)) = ObjectCount(mem, last.cls) - 1

\* the slabs met from head by following next, in order, until 0, the end of
\* the block or fuel slabs
RECURSIVE SlabChain(_, _, _)
SlabChain(m, head, fuel) ==
  IF head = 0 \/ fuel = 0 \/ head + SizeofSlab > Rd(m, OFF_size) THEN << >>
  ELSE <<head>> \o SlabChain(m, Rd(m, head + S_next), fuel - 1)

\* the three lists of a cache: the offsets of their head fields (the count
\* field is the next word)
CacheLists == {C_full_list, C_partial_list, C_free_list}

\* the slabs whose cache field names cache[index]
SlabsOf(m, index) == {slab \in Slabs(m) : Rd(m, slab + S_cache) = CacheOff(index)}

\* C22: after every call, for every cache and each of its full, partial and free
\* lists: following next from the head ends at 0 without meeting a slab twice,
\* count is the number of slabs met, count is 0 exactly when the head is 0, and
\* every slab of the cache is on exactly one of the three lists.
C22_ListsConsistent ==
  Returned =>
    \A index \in 0..(NumAllocCaches - 1) :
      /\ \A lst \in CacheLists :
           LET head == Rd(mem, CacheOff(index) + lst)
               count == Rd(mem, CacheOff(index) + lst + WordSize)
               chain == SlabChain(mem, head, MaxOps + 2)
           IN /\ Len(chain) <= MaxOps + 1
              /\ \A i, j \in 1..Len(chain) : chain[i] = chain[j] => i = j
              /\ count = Len(chain)
              /\ (count = 0) <=> (head = 0)
      /\ \A slab \in SlabsOf(mem, index) :
           Cardinality({lst \in CacheLists : slab \in SlabsOn(mem, index, lst)}) = 1

\* what the bitmaps need at one bit for a page: ceil(pages / 8) bytes, rounded
\* up to a multiple of 8
BitsetBytes(size) == (((((size \div PAGE_SIZE) + 7) \div 8) + 7) \div 8) * 8

\* the bitmaps lie in the header page, the heap bitmap first
InHeaderPage(m) ==
  /\ Rd(m, OFF_heap_bits) >= SizeofRegion
  /\ Rd(m, OFF_heap_bits) + Rd(m, OFF_heap_size) <= Rd(m, OFF_caches_bits)
  /\ Rd(m, OFF_caches_bits) + Rd(m, OFF_caches_size) <= PAGE_SIZE

\* C23: after region_init has accepted a size, each bitmap has
\* ceil((size / PAGE_SIZE) / 8) bytes rounded up to a multiple of 8, and the two
\* lie in the header page, heap bitmap first, exactly when twice that number is
\* at most PAGE_SIZE - sizeof(struct region).
C23_BitmapSize ==
  (Returned /\ last.op = "init") =>
    /\ Rd(mem, OFF_heap_size) = BitsetBytes(last.size)
    /\ Rd(mem, OFF_caches_size) = BitsetBytes(last.size)
    /\ InHeaderPage(mem) <=> (2 * BitsetBytes(last.size) <= PAGE_SIZE - SizeofRegion)

\* C24: after region_init has accepted a size, the bytes of the heap bitmap and
\* those of the cache bitmap are disjoint, lie inside the block and above the
\* region header, and, when they are not in the header page, in the last
\* bitmap_pages pages of the block.
C24_BitmapsInBlock ==
  (Returned /\ last.op = "init") =>
    LET size == Rd(mem, OFF_size)
        heap == Rd(mem, OFF_heap_bits)
        heapEnd == heap + Rd(mem, OFF_heap_size)
        caches == Rd(mem, OFF_caches_bits)
        cachesEnd == caches + Rd(mem, OFF_caches_size)
    IN /\ heapEnd <= caches \/ cachesEnd <= heap
       /\ heapEnd <= size /\ cachesEnd <= size
       /\ heap >= SizeofRegion /\ caches >= SizeofRegion
       /\ ~InHeaderPage(mem)
            => /\ heap >= size - PAGE_SIZE * BitmapPages(size)
               /\ caches >= size - PAGE_SIZE * BitmapPages(size)


============================================================================
